---- MODULE Spec2Model ----
(***************************************************************************)
(* Model of diffusion_walk (src/diffusion_simulator.py): the per-timestep  *)
(* reflective-collision integrator of the 2D Monte Carlo simulator.        *)
(*                                                                         *)
(* Arithmetic.  Coordinates are numbers a + b*EPS with a, b integers: a is *)
(* the lattice part ("s"), b the coefficient of EPS = 1e-10 ("e").  Terms  *)
(* in EPS*EPS are dropped, which is what float64 does to 1e-20 next to a   *)
(* coordinate of order one.  Numbers are ordered lexicographically (EPS is *)
(* smaller than every lattice unit).  Steps are lattice vectors along the  *)
(* eight compass directions and walls are axis-aligned lattice segments,   *)
(* so every intersection point and every mirrored, rescaled step is again  *)
(* a number of this form and the arithmetic below is exact.                *)
(***************************************************************************)
EXTENDS Integers, Sequences, FiniteSets

\* ------------------------------------------------------------------ bounds
\* the largest `iterations` argument
MaxIter == 3
\* the longest proposed step, in lattice units along its direction
MaxStepLen == 2
\* the number of inner passes counted; no inner loop that ends needs more
MaxPasses == 6

\* np.inf of line 128, as the squared distance no hit point can reach
Infinity == 1000000

\* ------------------------------------------------------------- vector algebra
Zero == <<0, 0>>
Add(a, b) == <<a[1] + b[1], a[2] + b[2]>>
Sub(a, b) == <<a[1] - b[1], a[2] - b[2]>>
Dot(a, b) == a[1] * b[1] + a[2] * b[2]
Cross(a, b) == a[1] * b[2] - a[2] * b[1]
Norm2(a) == Dot(a, a)
Mul(k, a) == <<k * a[1], k * a[2]>>
DivBy(a, k) == <<a[1] \div k, a[2] \div k>>

\* a position a + b*EPS
Pt(s, e) == [s |-> s, e |-> e]

\* (a1 + b1*EPS) <= (a2 + b2*EPS)
DualLeq(a1, b1, a2, b2) == a1 < a2 \/ (a1 = a2 /\ b1 <= b2)

\* lexicographic order on <<c0, c1, c2>> = c0 + c1*EPS + c2*EPS^2
TripleLess(a, b) ==
  \/ a[1] < b[1]
  \/ a[1] = b[1] /\ a[2] < b[2]
  \/ a[1] = b[1] /\ a[2] = b[2] /\ a[3] < b[3]

\* ------------------------------------------------------------------- inputs
Directions ==
  {<<1, 0>>, <<-1, 0>>, <<0, 1>>, <<0, -1>>,
   <<1, 1>>, <<1, -1>>, <<-1, 1>>, <<-1, -1>>}

\* the displacements generate_step can propose to a single particle: the zero
\* step and every compass direction at every lattice length up to MaxStepLen
Steps == {Zero} \cup {Mul(k, d) : k \in 1..MaxStepLen, d \in Directions}

\* the displacements proposed in the scenarios with two particles or two
\* parallel walls: rest, a short step back, a short and a long step forward
AxisSteps == {Zero, <<-1, 0>>, <<1, 0>>, <<MaxStepLen, 0>>}

Wall(a, b) == <<a, b>>

\* the square [1,4] x [1,4]: four walls meeting at right angles
BoxWalls ==
  <<Wall(<<1, 1>>, <<4, 1>>), Wall(<<1, 1>>, <<1, 4>>),
    Wall(<<4, 1>>, <<4, 4>>), Wall(<<1, 4>>, <<4, 4>>)>>

\* two parallel walls, the farther one first in the array
DoubleWalls ==
  <<Wall(<<4, -2>>, <<4, 2>>), Wall(<<3, -2>>, <<3, 2>>)>>

NoWalls == <<>>

Scenarios ==
  {[walls |-> BoxWalls, X0 |-> <<Pt(<<2, 2>>, Zero)>>, tag |-> "constant"],
   [walls |-> BoxWalls, X0 |-> <<Pt(<<2, 2>>, Zero), Pt(<<3, 2>>, Zero)>>,
    tag |-> "mapped"],
   [walls |-> DoubleWalls, X0 |-> <<Pt(<<2, 0>>, Zero)>>, tag |-> "mapped"],
   [walls |-> NoWalls, X0 |-> <<Pt(<<2, 2>>, Zero)>>, tag |-> "constant"]}

\* a tag outside the closed enumeration {constant, mapped}
UnknownTag == "bogus"
TimeFinals == {1, 2}

VARIABLES
  pc,                   \* position in diffusion_walk
  X0, walls, iterations, time_final, diffusion_model,   \* the arguments
  X, T_vals, dt,        \* locals of lines 76-86
  i,                    \* the timestep index of the for loop
  current_pos, next_step,
  particle_intersected, closest_wall_index,
  proposal,             \* what generate_step returned for timestep i
  passes,               \* inner passes run in timestep i
  calls                 \* calls of generate_step so far

vars ==
  <<pc, X0, walls, iterations, time_final, diffusion_model, X, T_vals, dt, i,
    current_pos, next_step, particle_intersected, closest_wall_index,
    proposal, passes, calls>>

N == Len(X0)
W == Len(walls)
Particles == 1..N

\* X and T_vals are indexed [particle][timestep], timesteps 0..iterations-1 as
\* in the source; particles and walls are numbered from 1
TimeIndices == 0..(iterations - 1)

\* ------------------------------------------- collaborators (geometry, steps)
\* find_intersection for one travel segment p -> q and one wall A-B: the
\* standard segment-segment test, hit = p + t*(q - p) with t and u in [0, 1];
\* parallel or degenerate pairs are not intersected, and then the hit point
\* is a don't-care (here the start point, the value nearest to the particle)
InUnit(ns, ne, den) ==
  IF den > 0
  THEN DualLeq(0, 0, ns, ne) /\ DualLeq(ns, ne, den, 0)
  ELSE DualLeq(0, 0, -ns, -ne) /\ DualLeq(-ns, -ne, -den, 0)

find_intersection(p, q, A, B) ==
  LET r == Sub(q.s, p.s)
      s == Sub(B, A)
      den == Cross(r, s)
      ds == Sub(A, p.s)
      de == Sub(Zero, p.e)
      tns == Cross(ds, s)
      tne == Cross(de, s)
      uns == Cross(ds, r)
      une == Cross(de, r)
  IN  IF den = 0
      THEN [hit |-> p, intersected |-> FALSE]
      ELSE [hit |-> Pt(Add(p.s, DivBy(Mul(tns, r), den)),
                       Add(p.e, DivBy(Mul(tne, r), den))),
            intersected |-> InUnit(tns, tne, den) /\ InUnit(uns, une, den)]

\* find_reflection_angle followed by rotate_vector_batched: the step vector
\* rotated by twice its angle of incidence, i.e. mirrored about the wall
MirrorAbout(v, wall) ==
  LET w == Sub(wall[2], wall[1])
  IN  Sub(DivBy(Mul(2 * Dot(v, w), w), Norm2(w)), v)

\* ------------------------------------------------- one inner pass, lines 104-216
\* line 109
NewPos(cur, step) == Pt(Add(cur.s, step), cur.e)

\* lines 113-118, for one particle: the result for every wall
WallHits(cur, new) ==
  [w \in 1..W |-> find_intersection(cur, new, walls[w][1], walls[w][2])]

\* lines 121-125: |current_pos - wall_hit|, squared, to second order in EPS
Dist2(cur, hit) ==
  LET dS == Sub(cur.s, hit.s)
      dE == Sub(cur.e, hit.e)
  IN  <<Norm2(dS), 2 * Dot(dS, dE), Norm2(dE)>>

\* lines 121-128: distances, with the walls not intersected set to np.inf
WallDistancesUnmasked(cur, found) ==
  [w \in 1..W |-> Dist2(cur, found[w].hit)]

WallDistances(cur, found) ==
  [w \in 1..W |->
     IF found[w].intersected THEN Dist2(cur, found[w].hit)
     ELSE <<Infinity, 0, 0>>]

\* np.argmin, lines 131-134: the first index of a smallest entry
ArgMin(d) ==
  CHOOSE k \in 1..W :
    /\ \A j \in 1..W : ~TripleLess(d[j], d[k])
    /\ \A j \in 1..(k - 1) : TripleLess(d[k], d[j])

\* lines 178-191: v_rotated * remaining_step_len / (total_step_len + EPS).
\* The result is the vector along v_rotated whose length is the remaining
\* length (the EPS of the denominator shortens it by a term of order EPS,
\* which a lattice step does not carry); a zero step stays zero. Where the
\* remaining length is no lattice length along v_rotated (only for a particle
\* that did not intersect, whose value line 212 discards) the vector is kept.
ScaleFullLength(v_rotated, remaining2, total2) == v_rotated

ScaleToRemaining(v_rotated, remaining2, total2) ==
  LET fits ==
        {v \in {<<x, y>> : x \in -MaxStepLen..MaxStepLen,
                           y \in -MaxStepLen..MaxStepLen} :
           /\ Cross(v, v_rotated) = 0
           /\ Dot(v, v_rotated) >= 0
           /\ Norm2(v) * total2 = Norm2(v_rotated) * remaining2}
  IN  IF total2 = 0 THEN Zero
      ELSE IF fits = {} THEN v_rotated
      ELSE CHOOSE v \in fits : TRUE

\* lines 196-197: closest_hit_pos - EPS * (closest_hit_pos - current_pos)
BouncePosBeyond(hit, cur) == Pt(hit.s, Add(hit.e, Sub(hit.s, cur.s)))

BouncePos(hit, cur) == Pt(hit.s, Sub(hit.e, Sub(hit.s, cur.s)))

\* np.where(particle_intersected[:, None], a, b), lines 203-216, one row
WhereAny(flags, n, a, b) == IF \E m \in Particles : flags[m] THEN a ELSE b

Where(flags, n, a, b) == IF flags[n] THEN a ELSE b

\* line 219: np.all(~particle_intersected)
AnyClear(flags) == \E n \in Particles : ~flags[n]

AllClear(flags) == \A n \in Particles : ~flags[n]
\* everything lines 109-216 compute for one particle
PassOf(cur, step) ==
  LET new == NewPos(cur, step)
      found == WallHits(cur, new)
      closest == ArgMin(WallDistances(cur, found))
      hit == found[closest].hit
      v_rotated == MirrorAbout(Sub(new.s, cur.s), walls[closest])
  IN  [new |-> new,
       closest |-> closest,
       intersected |-> found[closest].intersected,
       bounce_pos |-> BouncePos(hit, cur),
       bounce_step |-> ScaleToRemaining(v_rotated,
                                        Norm2(Sub(hit.s, new.s)),
                                        Norm2(Sub(new.s, cur.s)))]

\* line 225: X[:, i, :] = current_pos
CommitSliceBelow(tensor, k, cur) ==
  [n \in Particles |->
     [j \in TimeIndices |-> IF j = k \/ j = k - 1 THEN cur[n] ELSE tensor[n][j]]]

CommitSlice(tensor, k, cur) ==
  [n \in Particles |->
     [j \in TimeIndices |-> IF j = k THEN cur[n] ELSE tensor[n][j]]]

\* ------------------------------------------------------------------ actions
Init ==
  /\ pc = "start"
  /\ \E sc \in Scenarios :
       /\ walls = sc.walls
       /\ X0 = sc.X0
       /\ diffusion_model \in {sc.tag, UnknownTag}
  /\ iterations \in 1..MaxIter
  /\ time_final \in TimeFinals
  /\ X = <<>>
  /\ T_vals = <<>>
  /\ dt = [num |-> 0, den |-> 1]
  /\ i = 0
  /\ current_pos = <<>>
  /\ next_step = <<>>
  /\ particle_intersected = <<>>
  /\ closest_wall_index = <<>>
  /\ proposal = <<>>
  /\ passes = 0
  /\ calls = 0

\* lines 71-86: dt, and the two tensors allocated with slice 0 filled in
\* (T0_vals is all ones, as load_config builds it)
Setup ==
  /\ pc = "start"
  /\ dt' = [num |-> time_final, den |-> iterations]
  /\ X' = [n \in Particles |->
             [j \in TimeIndices |-> IF j = 0 THEN X0[n] ELSE Pt(Zero, Zero)]]
  /\ T_vals' = [n \in Particles |-> [j \in TimeIndices |-> IF j = 0 THEN 1 ELSE 0]]
  /\ i' = 1
  /\ pc' = "loop"
  /\ UNCHANGED <<X0, walls, iterations, time_final, diffusion_model,
                 current_pos, next_step, particle_intersected,
                 closest_wall_index, proposal, passes, calls>>

\* the draws of generate_step in the scenario at hand
StepChoices == IF N = 1 /\ W = 4 THEN Steps ELSE AxisSteps

\* the field values after generate_step: "constant" leaves them alone,
\* "mapped" carries the field value forward into the current entry (spec 4.1)
generate_step_values(values, k, tag) ==
  IF tag = "mapped"
  THEN [n \in Particles |-> [values[n] EXCEPT ![k] = values[n][k - 1]]]
  ELSE values

\* lines 88-101 with a recognised model tag: one call of generate_step for the
\* whole ensemble. "mapped" writes field values in place (spec 4.1).
GenerateStep ==
  /\ pc = "loop"
  /\ i < iterations
  /\ diffusion_model \in {"constant", "mapped"}
  /\ current_pos' = [n \in Particles |-> X[n][i - 1]]
  /\ \E st \in [Particles -> StepChoices] : next_step' = st /\ proposal' = st
  /\ T_vals' = generate_step_values(T_vals, i, diffusion_model)
  /\ calls' = calls + 1
  /\ passes' = 0
  /\ particle_intersected' = [n \in Particles |-> FALSE]
  /\ pc' = "inner"
  /\ UNCHANGED <<X0, walls, iterations, time_final, diffusion_model, X, dt, i,
                 closest_wall_index>>

\* lines 96-101 with an unrecognised tag: generate_step raises (spec 7)
GenerateStepFails ==
  /\ pc = "loop"
  /\ i < iterations
  /\ diffusion_model \notin {"constant", "mapped"}
  /\ current_pos' = [n \in Particles |-> X[n][i - 1]]
  /\ calls' = calls + 1
  /\ pc' = "ConfigurationError"
  /\ UNCHANGED <<X0, walls, iterations, time_final, diffusion_model, X, T_vals,
                 dt, i, next_step, particle_intersected, closest_wall_index,
                 proposal, passes>>

\* lines 104-220 with at least one wall: one pass of the while loop. The pass
\* counter stops counting one past MaxPasses.
InnerPass ==
  /\ pc = "inner"
  /\ W > 0
  /\ \E res \in {[n \in Particles |-> PassOf(current_pos[n], next_step[n])]} :
     LET flags == [n \in Particles |-> res[n].intersected]
     IN  /\ closest_wall_index' = [n \in Particles |-> res[n].closest]
         /\ particle_intersected' = flags
         /\ current_pos' =
              [n \in Particles |-> Where(flags, n, res[n].bounce_pos, res[n].new)]
         /\ next_step' =
              [n \in Particles |-> Where(flags, n, res[n].bounce_step, Zero)]
         /\ pc' = IF AllClear(flags) THEN "commit" ELSE "inner"
  /\ passes' = IF passes > MaxPasses THEN passes ELSE passes + 1
  /\ UNCHANGED <<X0, walls, iterations, time_final, diffusion_model, X, T_vals,
                 dt, i, proposal, calls>>

\* lines 104-134 with no wall: wall_distances has shape (N, 0) and np.argmin
\* over the empty axis raises ValueError
InnerPassNoWalls ==
  /\ pc = "inner"
  /\ W = 0
  /\ passes' = passes + 1
  /\ pc' = "ValueError"
  /\ UNCHANGED <<X0, walls, iterations, time_final, diffusion_model, X, T_vals,
                 dt, i, current_pos, next_step, particle_intersected,
                 closest_wall_index, proposal, calls>>

\* line 225, then the next iteration of the for loop
Commit ==
  /\ pc = "commit"
  /\ X' = CommitSlice(X, i, current_pos)
  /\ i' = i + 1
  /\ pc' = "loop"
  /\ UNCHANGED <<X0, walls, iterations, time_final, diffusion_model, T_vals, dt,
                 current_pos, next_step, particle_intersected,
                 closest_wall_index, proposal, passes, calls>>

\* line 227: the for loop is exhausted
Return ==
  /\ pc = "loop"
  /\ i >= iterations
  /\ pc' = "done"
  /\ UNCHANGED <<X0, walls, iterations, time_final, diffusion_model, X, T_vals,
                 dt, i, current_pos, next_step, particle_intersected,
                 closest_wall_index, proposal, passes, calls>>

Next ==
  \/ Setup
  \/ GenerateStep
  \/ GenerateStepFails
  \/ InnerPass
  \/ InnerPassNoWalls
  \/ Commit
  \/ Return

Spec == Init /\ [][Next]_vars
\* ------------------------------------------------------------------ claims
Known == diffusion_model \in {"constant", "mapped"}
Allocated == X # <<>>
InnerStep == pc = "inner" /\ W > 0 /\ pc' \in {"inner", "commit"}

\* sqrt(a) + sqrt(b) = sqrt(c), for squared lengths a, b, c
SqrtSumEq(a, b, c) == c >= a + b /\ (c - a - b) * (c - a - b) = 4 * a * b

\* p is not strictly beyond the wall, seen from the side ref lies on
Accessible(p, wall, ref) ==
  LET w == Sub(wall[2], wall[1])
      side == Cross(w, Sub(ref.s, wall[1]))
      sgn == IF side > 0 THEN 1 ELSE -1
  IN  DualLeq(0, 0, sgn * Cross(w, Sub(p.s, wall[1])), sgn * Cross(w, p.e))

\* C1: every inner loop ends within the configured number of passes, or the
\* run fails with ReflectionNonConvergence: the loop is never found running
\* past MaxPasses passes.
C1_InnerLoopBounded ==
  passes > MaxPasses => pc = "ReflectionNonConvergence"

\* C2: in the convex box, with the particles started inside it, every
\* committed position X[n, k], 1 <= k < i, is on the accessible side of
\* every wall (never strictly beyond one).
C2_Containment ==
  (Allocated /\ W = 4) =>
    \A n \in Particles : \A k \in 1..(i - 1) : \A w \in 1..W :
      Accessible(X[n][k], walls[w], X0[n])

\* a timestep with two bounces has been committed in the box
C2_Witness ==
  /\ W = 4 /\ pc = "loop" /\ i >= 2 /\ passes >= 3
  /\ \E n \in Particles : X[n][i - 1].e # Zero

\* C3: with no wall, a timestep never fails and commits, after a single
\* pass, the previous position plus the proposed displacement.
C3_NoWallStep ==
  W = 0 =>
    /\ pc # "ValueError"
    /\ pc = "commit" =>
         /\ passes = 1
         /\ \A n \in Particles :
              current_pos[n] = NewPos(X[n][i - 1], proposal[n])

\* C4: with an unknown model tag nothing is allocated, no step is generated
\* and the run does not complete: it fails with ConfigurationError first.
C4_UnknownTagFailsFirst ==
  ~Known => /\ ~Allocated
            /\ T_vals = <<>>
            /\ pc \in {"start", "ConfigurationError"}

\* C5: in every pass, for every particle that bounced, the distance from the
\* pre-hit position to the position it is placed at plus the length of its
\* next pending step equals the length of the step proposed for the pass
\* (lattice parts, i.e. up to the EPS terms).
C5_PathLength ==
  [][InnerStep =>
       \A n \in Particles :
         particle_intersected'[n] =>
           SqrtSumEq(Norm2(Sub(current_pos'[n].s, current_pos[n].s)),
                     Norm2(next_step'[n]),
                     Norm2(next_step[n]))]_vars

\* a particle has bounced part of the way along its step
C5_Witness ==
  /\ pc = "inner" /\ passes >= 1
  /\ \E n \in Particles :
       /\ particle_intersected[n]
       /\ next_step[n] # Zero
       /\ Norm2(next_step[n]) < Norm2(proposal[n])

\* C6: slice 0 of X holds the initial positions; X is written only by the
\* commit that follows an inner loop that ended, at index i only, with i
\* advancing by one; slices below i never change again.
C6_CommitDiscipline ==
  [][/\ Allocated' => \A n \in Particles : X'[n][0] = X0[n]
     /\ (Allocated /\ X' # X) =>
          /\ pc = "commit"
          /\ AllClear(particle_intersected)
          /\ i' = i + 1
          /\ \A n \in Particles : \A j \in TimeIndices :
               j # i => X'[n][j] = X[n][j]
     /\ Allocated =>
          /\ i' >= i
          /\ \A n \in Particles : \A j \in 0..(i - 1) : X'[n][j] = X[n][j]
     /\ (pc' = "done" /\ Known) => i' = iterations]_vars

\* two slices have been committed, the later one differing from the earlier
C6_Witness ==
  /\ pc = "done" /\ iterations = 3 /\ Known
  /\ \E n \in Particles : X[n][2] # X[n][1] /\ X[n][1] # X[n][0]

\* C7: a completed run has called generate_step once per each of its
\* `iterations` steps, and the time elapsed at the last index of X,
\* (iterations - 1) * dt, equals time_final.
C7_FullDuration ==
  (pc = "done" /\ Known) =>
    /\ calls = iterations
    /\ (iterations - 1) * dt.num = time_final * dt.den
\* a particle run alone: passes repeated until it does not intersect
RECURSIVE Solo(_, _, _)
Solo(cur, step, fuel) ==
  LET r == PassOf(cur, step)
  IN  IF ~r.intersected THEN r.new
      ELSE IF fuel = 0 THEN cur
      ELSE Solo(r.bounce_pos, r.bounce_step, fuel - 1)

\* C8: the position the inner loop ends with for a particle is the one the
\* particle reaches when run alone on its own proposal; and a particle that
\* did not intersect in a pass keeps its position, a zero pending step and a
\* clear flag through every further pass of the timestep.
C8_Independence ==
  [][InnerStep =>
       \A n \in Particles :
         /\ (passes >= 1 /\ ~particle_intersected[n]) =>
              /\ current_pos'[n] = current_pos[n]
              /\ next_step'[n] = Zero
              /\ ~particle_intersected'[n]
         /\ pc' = "commit" =>
              current_pos'[n] = Solo(X[n][i - 1], proposal[n], MaxPasses + 1)]_vars

\* the loop has ended after a pass run only for another particle's bounce
C8_Witness ==
  /\ pc = "commit" /\ N = 2 /\ passes = 2
  /\ proposal[1] = <<-1, 0>>
  /\ current_pos[1] = NewPos(X[1][i - 1], proposal[1])
  /\ current_pos[2] # NewPos(X[2][i - 1], proposal[2])

\* C9: in every pass a particle is flagged iff some wall is marked
\* intersected for it; the wall chosen for a flagged particle is marked
\* intersected, no intersected wall has a nearer hit point, and the particle
\* is placed at the chosen wall's hit point.
C9_NearestWall ==
  [][InnerStep =>
       \A n \in Particles :
         LET cur == current_pos[n]
             found == WallHits(cur, NewPos(cur, next_step[n]))
             c == closest_wall_index'[n]
         IN  /\ particle_intersected'[n] <=> \E w \in 1..W : found[w].intersected
             /\ particle_intersected'[n] =>
                  /\ found[c].intersected
                  /\ \A w \in 1..W :
                       found[w].intersected =>
                         ~TripleLess(Dist2(cur, found[w].hit), Dist2(cur, found[c].hit))
                  /\ current_pos'[n].s = found[c].hit.s]_vars

\* a step has crossed both parallel walls and bounced off the nearer one,
\* which is the second of the array
C9_Witness ==
  /\ pc = "inner" /\ W = 2 /\ passes = 1
  /\ particle_intersected[1]
  /\ closest_wall_index[1] = 2
  /\ proposal[1][1] >= 2

\* C10: in each pass a particle whose move intersected a wall goes to the
\* hit point moved back toward the pre-hit position by the EPS fraction,
\* with a pending step of the remaining length mirrored about the wall; any
\* other particle goes to position + step with a zero pending step; the loop
\* ends exactly after a pass in which no particle intersected, and X is
\* written only then.
C10_Resolution ==
  [][/\ InnerStep =>
          /\ \A n \in Particles :
               LET cur == current_pos[n]
                   new == NewPos(cur, next_step[n])
                   wall == walls[closest_wall_index'[n]]
                   h == find_intersection(cur, new, wall[1], wall[2]).hit
                   w == Sub(wall[2], wall[1])
               IN  IF particle_intersected'[n]
                   THEN /\ current_pos'[n].s = h.s
                        /\ Sub(current_pos'[n].e, h.e) = Sub(cur.s, h.s)
                        /\ Norm2(next_step'[n]) = Norm2(Sub(h.s, new.s))
                        /\ Dot(next_step'[n], w) * Dot(next_step[n], w) >= 0
                        /\ Cross(next_step'[n], w) * Cross(next_step[n], w) <= 0
                   ELSE /\ current_pos'[n] = new
                        /\ next_step'[n] = Zero
          /\ pc' = "commit" <=> \A n \in Particles : ~particle_intersected'[n]
     /\ (Allocated /\ X' # X) =>
          /\ pc = "commit"
          /\ \A n \in Particles : ~particle_intersected[n] /\ next_step[n] = Zero
          /\ \A n \in Particles : X'[n][i] = current_pos[n]]_vars

\* one particle is resolved while the other still has a bounce pending
C10_Witness ==
  /\ pc = "inner" /\ N = 2 /\ passes = 1
  /\ \E n, m \in Particles :
       /\ particle_intersected[n] /\ next_step[n] # Zero
       /\ ~particle_intersected[m] /\ proposal[m] # Zero
====
